---- MODULE Spec2Model ----
(***************************************************************************)
(* Model of the tax computation engine and the retry helper of            *)
(* src/app.py (TaxGuide AI).                                               *)
(*                                                                         *)
(* Money.  The Python code computes with floats whose values are integer  *)
(* rupees, half rupees (business_income * 0.50) and products of those     *)
(* with the percentages 4..50.  The model computes the same quantities    *)
(* exactly, as fixed-point numbers [w |-> whole, f |-> fraction] that     *)
(* stand for w + f / DEN with 0 <= f < DEN.  Every product the code       *)
(* forms is a multiple of 1/DEN, so no rounding happens in the model.     *)
(* int(x) of the code (truncation toward zero) is FInt.                   *)
(***************************************************************************)
EXTENDS Integers, Sequences, FiniteSets

VARIABLES
    pc, inp, res, prev,          \* calls of calculate_tax_detailed
    bpc, bin, bout,              \* one call of compute_tax_breakdown
    rpc, retries, i, now, sent, slept, err, outcome, response
                                 \* one call of send_message_with_retry

engineVars == <<pc, inp, res, prev>>
breakdownVars == <<bpc, bin, bout>>
retryVars == <<rpc, retries, i, now, sent, slept, err, outcome, response>>
vars == <<engineVars, breakdownVars, retryVars>>

---------------------------------------------------------------------------
(* Fixed-point arithmetic standing for the Python floats.                  *)

\* halves (business_income * 0.50) times three percentages
DEN == 2 * 100 * 100 * 100

Fix(n) == [w |-> n, f |-> 0]

FNorm(w, f) == [w |-> w + (f \div DEN), f |-> f % DEN]

FAdd(x, y) == FNorm(x.w + y.w, x.f + y.f)

FSub(x, y) == FNorm(x.w - y.w, x.f - y.f)

\* x * (p / 100): the code's x * 0.05, x * 0.30, tax * rate, ...
FMulPct(x, p) ==
    FNorm((x.w \div 100) * p + ((x.w % 100) * p) \div 100,
          (((x.w % 100) * p) % 100) * (DEN \div 100) + (x.f * p) \div 100)

FLt(x, y) == x.w < y.w \/ (x.w = y.w /\ x.f < y.f)

FLe(x, y) == ~FLt(y, x)

FMax(x, y) == IF FLt(x, y) THEN y ELSE x

FMin(x, y) == IF FLt(y, x) THEN y ELSE x

\* Python's int(): truncation toward zero
FInt(x) == IF x.w >= 0 \/ x.f = 0 THEN x.w ELSE x.w + 1

---------------------------------------------------------------------------
(* compute_tax_breakdown (src/app.py:133-158)                              *)

\* the slabs of each regime, highest first: <<lower bound, rate in percent>>
new_slabs ==
    << <<2400000, 30>>, <<2000000, 25>>, <<1600000, 20>>,
       <<1200000, 15>>, <<800000, 10>>, <<400000, 5>> >>

\* a variant of limit: the senior limits from the year after 60 and 80
limit_after_birthday(age) ==
    IF age > 80 THEN 500000 ELSE (IF age > 60 THEN 300000 ELSE 250000)

limit(age) == IF age >= 80 THEN 500000 ELSE (IF age >= 60 THEN 300000 ELSE 250000)

old_slabs(age) == << <<1000000, 30>>, <<500000, 20>>, <<limit(age), 5>> >>

\* the chain "if t > X: tax += (t-X)*r; t = X" from slab k on
RECURSIVE slab_chain(_, _, _, _)
slab_chain(slabs, k, t, tax) ==
    IF k > Len(slabs) THEN tax
    ELSE IF FLt(Fix(slabs[k][1]), t)
         THEN slab_chain(slabs, k + 1, Fix(slabs[k][1]),
                         FAdd(tax, FMulPct(FSub(t, Fix(slabs[k][1])), slabs[k][2])))
         ELSE slab_chain(slabs, k + 1, t, tax)

\* the local `tax` after the slab chain
slab_tax(income, age, regime) ==
    IF regime = "new" THEN slab_chain(new_slabs, 1, income, Fix(0))
    ELSE slab_chain(old_slabs(age), 1, income, Fix(0))

\* a variant of surcharge_rate: 37% above 50,000,000 under either regime
surcharge_rate_any_regime(income, regime) ==
    IF FLt(Fix(5000000), income)
    THEN IF FLt(Fix(50000000), income) THEN 37
         ELSE IF FLt(Fix(20000000), income) THEN 25
         ELSE IF FLe(income, Fix(10000000)) THEN 10 ELSE 15
    ELSE 0

\* the local `rate`, in percent; 0 when the surcharge branch is not taken
surcharge_rate(income, regime) ==
    IF FLt(Fix(5000000), income)
    THEN IF regime = "old" /\ FLt(Fix(50000000), income) THEN 37
         ELSE IF FLt(Fix(20000000), income) THEN 25
         ELSE IF FLe(income, Fix(10000000)) THEN 10 ELSE 15
    ELSE 0

\* the local `surcharge`
surcharge_of(income, age, regime) ==
    IF FLt(Fix(5000000), income)
    THEN FMulPct(slab_tax(income, age, regime), surcharge_rate(income, regime))
    ELSE Fix(0)

\* the local `cess`
cess_of(income, age, regime) ==
    FMulPct(FAdd(slab_tax(income, age, regime), surcharge_of(income, age, regime)), 4)

\* a variant of total_of: the sum of the truncated components
total_of_truncated(income, age, regime) ==
    FInt(slab_tax(income, age, regime)) + FInt(surcharge_of(income, age, regime))
    + FInt(cess_of(income, age, regime))

\* the returned total: int(tax + surcharge + cess)
total_of(income, age, regime) ==
    FInt(FAdd(FAdd(slab_tax(income, age, regime), surcharge_of(income, age, regime)),
              cess_of(income, age, regime)))

compute_tax_breakdown(income, age, regime) ==
    [base |-> FInt(slab_tax(income, age, regime)),
     surcharge |-> FInt(surcharge_of(income, age, regime)),
     cess |-> FInt(cess_of(income, age, regime)),
     total |-> total_of(income, age, regime)]

---------------------------------------------------------------------------
(* calculate_hra_exemption and calculate_tax_detailed (src/app.py:69-131). *)
(* `a` is the record of the call's arguments.                              *)

std_deduction_new == 75000

std_deduction_old == 50000

calculate_hra_exemption(basic_annual, rent_annual) ==
    FInt(FMax(Fix(0), FMin(FSub(Fix(rent_annual), FMulPct(basic_annual, 10)),
                           FMulPct(basic_annual, 50))))

\* salary * (custom_basic / 100.0) is taken exactly; the float product of the
\* code is the nearest double to it
basic(a) ==
    IF a.custom_basic > 0
    THEN IF a.custom_basic < 100 THEN FMulPct(Fix(a.salary), a.custom_basic)
         ELSE Fix(a.custom_basic)
    ELSE FMulPct(Fix(a.salary), 50)

final_rent(a) ==
    IF a.rent_paid > 0 /\ FLt(Fix(a.rent_paid), FMulPct(Fix(a.salary), 15))
    THEN a.rent_paid * 12
    ELSE a.rent_paid

hra_exemption(a) == calculate_hra_exemption(basic(a), final_rent(a))

IMin(x, y) == IF y < x THEN y ELSE x

limit_80tta(a) == IF a.age >= 60 THEN 50000 ELSE 10000

deduction_80tta(a) == IMin(a.savings_int, limit_80tta(a))

deduction_home_loan(a) == IMin(a.home_loan, 200000)

deduction_nps(a) == IMin(a.nps, 50000)

taxable_business(a) == FMulPct(Fix(a.business_income), 50)

gross(a) == FAdd(Fix(a.salary), taxable_business(a))

deductions_old(a) ==
    std_deduction_old + hra_exemption(a) + IMin(a.inv_80c, 150000) + a.med_80d
    + deduction_home_loan(a) + deduction_nps(a) + a.edu_loan
    + a.donations + deduction_80tta(a) + a.other_deductions

\* a variant of net_old: no floor at 0
net_old_unfloored(a) == FSub(gross(a), Fix(deductions_old(a)))

net_old(a) == FMax(Fix(0), FSub(gross(a), Fix(deductions_old(a))))

\* a variant of net_new: the 80C investment deducted under the new regime too
net_new_less_80c(a) ==
    FMax(Fix(0), FSub(gross(a), Fix(std_deduction_new + IMin(a.inv_80c, 150000))))

net_new(a) == FMax(Fix(0), FSub(gross(a), Fix(std_deduction_new)))

calculate_tax_detailed(a) ==
    [new |-> [breakdown |-> compute_tax_breakdown(net_new(a), a.age, "new"),
              net |-> net_new(a)],
     old |-> [breakdown |-> compute_tax_breakdown(net_old(a), a.age, "old"),
              net |-> net_old(a),
              deductions |->
                  [std |-> std_deduction_old,
                   hra |-> hra_exemption(a),
                   c80 |-> IMin(a.inv_80c, 150000),
                   d80 |-> a.med_80d,
                   home_loan |-> deduction_home_loan(a),
                   nps |-> deduction_nps(a),
                   e80 |-> a.edu_loan,
                   g80 |-> a.donations,
                   tta80 |-> deduction_80tta(a),
                   other |-> a.other_deductions],
              assumptions |-> [basic |-> basic(a), rent_annual |-> final_rent(a)]]]

---------------------------------------------------------------------------
(* Calls of calculate_tax_detailed.  The chat loop (src/app.py:287-300)    *)
(* parses every CALCULATE directive into the argument record, starting     *)
(* from the defaults, and calls the function on it; after an answer of the *)
(* user the directive comes again with that argument changed.  The         *)
(* function itself accepts any number, so arguments below zero are drawn   *)
(* as well.                                                                *)

Defaults ==
    [age |-> 30, salary |-> 0, business_income |-> 0, rent_paid |-> 0,
     inv_80c |-> 0, med_80d |-> 0, home_loan |-> 0, nps |-> 0, edu_loan |-> 0,
     donations |-> 0, savings_int |-> 0, other_deductions |-> 0, custom_basic |-> 0]

Ages == {30, 45, 59, 60, 65, 79, 80}

Salaries ==
    {0, 100000, 600000, 700000, 1000000, 1275000, 1275001, 1500000,
     2500000, 5075000, 5075001, 60000000}

\* the values each argument takes in a changed directive
Dom ==
    [age |-> Ages,
     salary |-> Salaries \cup {-100000},
     business_income |-> {-300001, 0, 300001},
     rent_paid |-> {-5000, 0, 100000, 240000},
     inv_80c |-> {0, 200000},
     med_80d |-> {0, 25000},
     home_loan |-> {0, 250000},
     nps |-> {0, 60000},
     edu_loan |-> {0, 30000},
     donations |-> {0, 1},
     savings_int |-> {0, 60000},
     other_deductions |-> {-700000, 0, 100000000},
     custom_basic |-> {-5, 0, 40, 100, 600000}]

\* salary, rent and basic-salary override vary, deductions absent or typical
SalarySweep ==
    {[Defaults EXCEPT !.age = ag, !.salary = s, !.business_income = b,
                      !.rent_paid = r, !.custom_basic = cb,
                      !.inv_80c = d * 150000, !.med_80d = d * 25000] :
        ag \in {45, 65}, s \in Salaries, b \in {0, 300001},
        r \in {0, 100000, 240000}, cb \in {0, 40, 100, 600000}, d \in {0, 1}}

\* every deduction present or absent
DeductionSweep ==
    {[Defaults EXCEPT !.age = ag, !.salary = s,
                      !.inv_80c = c, !.med_80d = m, !.home_loan = h, !.nps = n,
                      !.edu_loan = e, !.donations = g, !.savings_int = t,
                      !.other_deductions = o] :
        ag \in {45, 65}, s \in {1000000, 1500000},
        c \in Dom.inv_80c, m \in Dom.med_80d, h \in Dom.home_loan, n \in Dom.nps,
        e \in Dom.edu_loan, g \in Dom.donations, t \in Dom.savings_int,
        o \in {0, 100000000}}

\* every age with every salary, nothing else
AgeSweep == {[Defaults EXCEPT !.age = ag, !.salary = s] : ag \in Ages, s \in Salaries}

\* arguments below zero: the code checks nothing at ingress
NegativeSweep ==
    {[Defaults EXCEPT !.salary = s, !.business_income = b, !.rent_paid = r,
                      !.other_deductions = o, !.custom_basic = cb] :
        s \in {-100000, 0, 600000}, b \in {-300001, 0}, r \in {-5000, 0, 100000},
        o \in {-700000, 0}, cb \in {-5, 0}}

Inputs == SalarySweep \cup DeductionSweep \cup AgeSweep \cup NegativeSweep

NoCall == [inp |-> Defaults, res |-> calculate_tax_detailed(Defaults)]

\* the parts of the state a specification does not use stay as they are here
EngineIdle ==
    pc = "idle" /\ inp = Defaults /\ res = calculate_tax_detailed(Defaults) /\ prev = NoCall

BreakdownIdle ==
    /\ bpc = "idle" /\ bin = [income |-> Fix(0), age |-> 30, regime |-> "new"]
    /\ bout = [ret |-> compute_tax_breakdown(Fix(0), 30, "new"),
               tax |-> Fix(0), surcharge |-> Fix(0), cess |-> Fix(0)]

RetryIdle ==
    /\ rpc = "idle" /\ retries = 0 /\ i = 0 /\ now = 0 /\ sent = <<>> /\ slept = <<>>
    /\ err = <<>> /\ outcome = "none" /\ response = 0

EngineInit ==
    /\ pc = "ready"
    /\ inp \in Inputs
    /\ res = calculate_tax_detailed(Defaults)
    /\ prev = NoCall
    /\ BreakdownIdle /\ RetryIdle

\* the first CALCULATE directive of the conversation
Calculate ==
    /\ pc = "ready"
    /\ res' = calculate_tax_detailed(inp)
    /\ pc' = "first"
    /\ UNCHANGED <<inp, prev, breakdownVars, retryVars>>

\* the directive again, one argument changed
Recalculate ==
    /\ pc = "first"
    /\ \E fld \in DOMAIN Dom : \E v \in Dom[fld] :
          /\ v # inp[fld]
          /\ inp' = [inp EXCEPT ![fld] = v]
    /\ prev' = [inp |-> inp, res |-> res]
    /\ res' = calculate_tax_detailed(inp')
    /\ pc' = "second"
    /\ UNCHANGED <<breakdownVars, retryVars>>

EngineNext == Calculate \/ Recalculate

SpecEngine == EngineInit /\ [][EngineNext]_vars

---------------------------------------------------------------------------
(* One call of compute_tax_breakdown on a net taxable income around the    *)
(* thresholds of the code.                                                 *)

Spread == 3

Thresholds ==
    {0, 250000, 300000, 400000, 500000, 800000, 1000000, 1200000, 1600000,
     2000000, 2400000, 5000000, 10000000, 20000000, 50000000}

\* whole rupees and, as calculate_tax_detailed passes them, half rupees
Incomes ==
    {[w |-> t + d, f |-> h] :
        t \in Thresholds, d \in (0 - Spread)..Spread, h \in {0, DEN \div 2}}

BreakdownAges == {45, 59, 60, 79, 80}

BreakdownInit ==
    /\ bpc = "call"
    /\ bin \in {[income |-> n, age |-> ag, regime |-> rg] :
                   n \in {m \in Incomes : m.w >= 0}, ag \in BreakdownAges,
                   rg \in {"new", "old"}}
    /\ bout = [ret |-> compute_tax_breakdown(Fix(0), 30, "new"),
               tax |-> Fix(0), surcharge |-> Fix(0), cess |-> Fix(0)]
    /\ EngineIdle /\ RetryIdle

\* the call runs to its return; the locals are kept beside the returned record
Compute ==
    /\ bpc = "call"
    /\ bout' = [ret |-> compute_tax_breakdown(bin.income, bin.age, bin.regime),
                tax |-> slab_tax(bin.income, bin.age, bin.regime),
                surcharge |-> surcharge_of(bin.income, bin.age, bin.regime),
                cess |-> cess_of(bin.income, bin.age, bin.regime)]
    /\ bpc' = "done"
    /\ UNCHANGED <<bin, engineVars, retryVars>>

BreakdownNext == Compute

SpecBreakdown == BreakdownInit /\ [][BreakdownNext]_vars

---------------------------------------------------------------------------
(* send_message_with_retry (src/app.py:21-31).  An exception's text is a   *)
(* sequence of characters; the session answers each attempt with a         *)
(* response or with one of the exceptions below.                           *)

MaxRetries == 3

MaxLatency == 1

Errors ==
    { <<"4", "2", "9">>, <<"4", "4", "2", "9", " ", "q">>, <<"5", "0", "0">>,
      <<"4", "2", " ", "9">> }

Busy == <<"b", "u", "s", "y">>

\* "429" in str(e)
Has429(msg) ==
    \E k \in 1..(Len(msg) - 2) : msg[k] = "4" /\ msg[k + 1] = "2" /\ msg[k + 2] = "9"

RECURSIVE Pow2(_)
Pow2(n) == IF n = 0 THEN 1 ELSE 2 * Pow2(n - 1)

\* a variant of backoff: 2 ** i
backoff_from_one(k) == Pow2(k)

\* time.sleep(2 ** (i + 1))
backoff(k) == Pow2(k + 1)

RetryInit ==
    /\ rpc = "loop"
    /\ retries \in 0..MaxRetries
    /\ i = 0 /\ now = 0 /\ sent = <<>> /\ slept = <<>>
    /\ err = <<>> /\ outcome = "running" /\ response = 0
    /\ EngineIdle /\ BreakdownIdle

\* chat_session.send_message(prompt) returns
SendOk ==
    /\ rpc = "loop" /\ i < retries
    /\ \E d \in 0..MaxLatency : now' = now + d
    /\ sent' = Append(sent, now)
    /\ response' = Len(sent) + 1
    /\ outcome' = "returned"
    /\ rpc' = "done"
    /\ UNCHANGED <<retries, i, slept, err, engineVars, breakdownVars>>

\* chat_session.send_message(prompt) raises: sleep and go on, or re-raise
SendFail ==
    /\ rpc = "loop" /\ i < retries
    /\ \E d \in 0..MaxLatency : now' = now + d
    /\ sent' = Append(sent, now)
    /\ \E e \in Errors :
          /\ err' = e
          /\ IF Has429(e)
             THEN rpc' = "sleep" /\ outcome' = outcome
             ELSE rpc' = "done" /\ outcome' = "raised"
    /\ UNCHANGED <<retries, i, slept, response, engineVars, breakdownVars>>

\* time.sleep(2 ** (i + 1)); continue
Sleep ==
    /\ rpc = "sleep"
    /\ now' = now + backoff(i)
    /\ slept' = Append(slept, backoff(i))
    /\ i' = i + 1
    /\ rpc' = "loop"
    /\ UNCHANGED <<retries, sent, err, outcome, response, engineVars, breakdownVars>>

\* the loop is over: raise Exception("Server busy ...")
Exhausted ==
    /\ rpc = "loop" /\ i >= retries
    /\ err' = Busy
    /\ outcome' = "raised"
    /\ rpc' = "done"
    /\ UNCHANGED <<retries, i, now, sent, slept, response, engineVars, breakdownVars>>

RetryNext == SendOk \/ SendFail \/ Sleep \/ Exhausted

\* the call runs on one thread and every step of it returns
SpecRetry == RetryInit /\ [][RetryNext]_vars /\ WF_vars(RetryNext)

---------------------------------------------------------------------------
(* Properties of compute_tax_breakdown, checked under SpecBreakdown.       *)

Returned == bpc = "done"

\* the income of the call is the whole number n
IncomeIs(n) == bin.income = Fix(n)

\* C1: under the new regime a net taxable income of at most 1,200,000 gives
\* base = surcharge = cess = total = 0, and 1,200,001 gives a base tax > 0.
C1_NewRebate ==
    (Returned /\ bin.regime = "new") =>
        /\ FLe(bin.income, Fix(1200000)) =>
              /\ bout.ret.base = 0 /\ bout.ret.surcharge = 0
              /\ bout.ret.cess = 0 /\ bout.ret.total = 0
        /\ IncomeIs(1200001) => FLt(Fix(0), bout.tax)

\* C2: under the old regime a net taxable income of at most 500,000 gives
\* base = 0 and total = 0 at every age, and 500,001 gives a base tax > 0.
C2_OldRebate ==
    (Returned /\ bin.regime = "old") =>
        /\ FLe(bin.income, Fix(500000)) => (bout.ret.base = 0 /\ bout.ret.total = 0)
        /\ IncomeIs(500001) => FLt(Fix(0), bout.tax)

\* C4 as claimed: the returned total is the sum of the returned base,
\* surcharge and cess fields.
C4_TotalIsSumOfFields ==
    Returned => bout.ret.total = bout.ret.base + bout.ret.surcharge + bout.ret.cess

\* C4 as amended: the returned total is the truncation of the untruncated
\* tax + surcharge + cess, with cess 4% of tax + surcharge; every other field
\* is the truncation of its own component, so the total is at least the sum
\* of the fields and at most 2 more.
C4_TotalIsTruncatedSum ==
    Returned =>
        /\ bout.ret.total = FInt(FAdd(FAdd(bout.tax, bout.surcharge), bout.cess))
        /\ bout.cess = FMulPct(FAdd(bout.tax, bout.surcharge), 4)
        /\ bout.ret.base = FInt(bout.tax)
        /\ bout.ret.surcharge = FInt(bout.surcharge)
        /\ bout.ret.cess = FInt(bout.cess)
        /\ bout.ret.total >= bout.ret.base + bout.ret.surcharge + bout.ret.cess
        /\ bout.ret.total <= bout.ret.base + bout.ret.surcharge + bout.ret.cess + 2

\* a returned total that is 2 above the sum of the returned fields
C4_Witness ==
    /\ Returned
    /\ bout.ret.total = bout.ret.base + bout.ret.surcharge + bout.ret.cess + 2

\* the rate of the surcharge tiers as the claim states them, in percent
TierRate(n, regime) ==
    IF n.w < 5000000 \/ n = Fix(5000000) THEN 0
    ELSE IF n.w < 10000000 \/ n = Fix(10000000) THEN 10
    ELSE IF n.w < 20000000 \/ n = Fix(20000000) THEN 15
    ELSE IF regime = "old" /\ ~(n.w < 50000000 \/ n = Fix(50000000)) THEN 37
    ELSE 25

\* C5: the surcharge is the base tax times 0, 10%, 15% or 25% by the tier of
\* the income, 37% above 50,000,000 under the old regime only; 5,000,000
\* gives no surcharge and 5,000,001 a surcharge > 0 at 10%.
C5_SurchargeTiers ==
    Returned =>
        /\ bout.surcharge = FMulPct(bout.tax, TierRate(bin.income, bin.regime))
        /\ bout.ret.surcharge = FInt(FMulPct(bout.tax, TierRate(bin.income, bin.regime)))
        /\ bin.regime = "new" => FLe(bout.surcharge, FMulPct(bout.tax, 25))
        /\ IncomeIs(5000000) => bout.ret.surcharge = 0
        /\ IncomeIs(5000001) =>
              (bout.ret.surcharge > 0 /\ bout.surcharge = FMulPct(bout.tax, 10))

\* an old-regime income above 50,000,000 whose surcharge is 37% of the tax,
\* and more than the 25% the new regime would take
C5_Witness ==
    /\ Returned /\ bin.regime = "old" /\ FLt(Fix(50000000), bin.income)
    /\ bout.surcharge = FMulPct(bout.tax, 37)
    /\ FLt(FMulPct(bout.tax, 25), bout.surcharge)

---------------------------------------------------------------------------
(* Properties of calculate_tax_detailed, checked under SpecEngine.         *)

Called == pc \in {"first", "second"}

NonNegative(a) == \A fld \in DOMAIN a : a[fld] >= 0

\* the two calls differ in the salary at most
SameButSalary == \A fld \in DOMAIN inp : fld # "salary" => inp[fld] = prev.inp[fld]

\* C3: with every other argument equal and non-negative, a higher salary
\* never gives a lower total tax, under either regime.
C3_MonotoneInSalary ==
    (/\ pc = "second" /\ SameButSalary
     /\ NonNegative(inp) /\ NonNegative(prev.inp)
     /\ prev.inp.salary <= inp.salary) =>
        /\ prev.res.new.breakdown.total <= res.new.breakdown.total
        /\ prev.res.old.breakdown.total <= res.old.breakdown.total

\* the old-regime slab tax as the claim states it, for an income n > 500,000
OldSlabTax(n, age) ==
    FAdd(FAdd(FMulPct(Fix(500000 - (IF age < 60 THEN 250000
                                    ELSE IF age < 80 THEN 300000 ELSE 500000)), 5),
              FMulPct(FSub(FMin(n, Fix(1000000)), Fix(500000)), 20)),
         FMulPct(FSub(FMax(n, Fix(1000000)), Fix(1000000)), 30))

SeniorScenario == [Defaults EXCEPT !.salary = 1000000, !.age = 65]

\* C6: above 500,000 the old-regime base tax is 5% of the income between the
\* age's exemption limit (250,000 / 300,000 from 60 / 500,000 from 80) and
\* 500,000, 20% of the part up to 1,000,000 and 30% of the rest; salary
\* 1,000,000 at age 65 with nothing else gives net 950,000, base 100,000,
\* cess 4,000 and total 104,000.
C6_OldSlabsByAge ==
    Called =>
        /\ FLt(Fix(500000), res.old.net) =>
              res.old.breakdown.base = FInt(OldSlabTax(res.old.net, inp.age))
        /\ inp = SeniorScenario =>
              /\ res.old.net = Fix(950000)
              /\ res.old.breakdown.base = 100000
              /\ res.old.breakdown.cess = 4000
              /\ res.old.breakdown.total = 104000

\* the scenario has been computed, and so has an income above 500,000 at an
\* age of 80 or more, where nothing is taxed at 5%
C6_Witness ==
    /\ pc = "second"
    /\ prev.inp = SeniorScenario /\ prev.res.old.breakdown.total = 104000
    /\ inp.age >= 80 /\ res.old.net = Fix(950000) /\ res.old.breakdown.base = 90000

\* the sum of the deductions the result reports for the old regime
ReportedDeductions ==
    res.old.deductions.std + res.old.deductions.hra + res.old.deductions.c80
    + res.old.deductions.d80 + res.old.deductions.home_loan + res.old.deductions.nps
    + res.old.deductions.e80 + res.old.deductions.g80 + res.old.deductions.tta80
    + res.old.deductions.other

AllNonNegative(bd) == bd.base >= 0 /\ bd.surcharge >= 0 /\ bd.cess >= 0 /\ bd.total >= 0

C8_BasicOverride ==
    Called =>
        res.old.assumptions.basic =
            (IF inp.custom_basic > 0 /\ inp.custom_basic <= 100
             THEN FMulPct(Fix(inp.salary), inp.custom_basic)
             ELSE IF inp.custom_basic > 100 THEN Fix(inp.custom_basic)
             ELSE FMulPct(Fix(inp.salary), 50))

\* the two calls agree on age, salary and business income
SameIncome ==
    /\ inp.age = prev.inp.age /\ inp.salary = prev.inp.salary
    /\ inp.business_income = prev.inp.business_income

\* C9: the new-regime net taxable income is max(0, salary + half the
\* business income - 75,000), and two calls with the same age, salary and
\* business income return the same new-regime net income and breakdown
\* whatever their rent, deductions and basic-salary override.
C9_NewIgnoresDeductions ==
    /\ Called =>
          res.new.net =
              FMax(Fix(0), FSub(FAdd(Fix(inp.salary), FMulPct(Fix(inp.business_income), 50)),
                                Fix(75000)))
    /\ (pc = "second" /\ SameIncome) => res.new = prev.res.new

\* a changed deduction that changes the old regime's tax and leaves a
\* new-regime tax above 0 as it was
C9_Witness ==
    /\ pc = "second" /\ SameIncome
    /\ inp.other_deductions # prev.inp.other_deductions
    /\ res.old.breakdown.total # prev.res.old.breakdown.total
    /\ res.new = prev.res.new /\ res.new.breakdown.total > 0

---------------------------------------------------------------------------
(* Properties of send_message_with_retry, checked under SpecRetry.         *)

Finished == rpc = "done"

\* what holds in every state of a call
RetryOutcome ==
    /\ Len(sent) <= retries
    /\ \A k \in 1..Len(slept) : slept[k] = Pow2(k)
    /\ \A k \in 1..(Len(sent) - 1) : sent[k + 1] >= sent[k] + Pow2(k)
    /\ Finished =>
          \/ /\ outcome = "returned" /\ response = Len(sent) /\ response >= 1
             /\ Len(slept) = Len(sent) - 1
          \/ /\ outcome = "raised" /\ err # Busy /\ ~Has429(err)
             /\ Len(sent) >= 1 /\ Len(slept) = Len(sent) - 1 /\ response = 0
          \/ /\ outcome = "raised" /\ err = Busy
             /\ Len(sent) = retries /\ Len(slept) = retries /\ response = 0

\* C10: every call ends, after at most `retries` attempts, with the first
\* response, with the first error that has no "429" in it (no wait after
\* it), or, every attempt rate-limited, with the "Server busy" failure; the
\* wait after the k-th rate-limited attempt is 2^k seconds and the next
\* attempt starts no sooner.
C10_RetryWithBackoff == []RetryOutcome /\ <>Finished

\* three rate-limited attempts, waits of 2, 4 and 8, then "Server busy"
C10_Witness ==
    /\ Finished /\ retries = 3 /\ err = Busy /\ outcome = "raised"
    /\ slept = <<2, 4, 8>> /\ Len(sent) = 3

====
